---- MODULE Spec2Model ----
(***************************************************************************)
(* Model of the RTSP load tester's supervision and orchestration core:     *)
(*   src/src/rtsp_load_tester/stream_publisher.py  (RTSPStreamPublisher)   *)
(*   src/src/rtsp_load_tester/orchestrator.py      (LoadTestOrchestrator)  *)
(*   src/src/rtsp_load_tester/main.py              (main)                  *)
(*                                                                         *)
(* One caller thread (the main thread) runs the publisher and orchestrator *)
(* operations; every publisher has supervision threads running             *)
(* _publish_loop concurrently; the encoder processes and the termination   *)
(* signals are the environment.                                            *)
(***************************************************************************)
EXTENDS Integers, Sequences, FiniteSets, TLC

\* ---------------------------------------------------------------- bounds
\* number of publisher objects
NPub == 2
\* start() calls per publisher that create a supervision thread
MaxStarts == 2
\* the environment stops crashing the encoder of publisher 1 at this error
\* count, and the encoder of every other publisher at MaxSiblingErrors
MaxErrors == 10
MaxSiblingErrors == 1
\* launches of publisher 1 that fail (Popen raising); the launches of the
\* other publishers succeed
MaxFails == 1

\* ------------------------------------------------------- program constants
\* is_healthy(): self.error_count < 10
HealthThreshold == 10
\* limits.max_memory_percent and limits.max_cpu_percent when absent
MaxMemoryPercent == 80
MaxCpuPercent == 90
\* load_test.report_interval when absent: 10 seconds
DefaultReportInterval == 20
\* time.sleep(0.5) between two publisher starts
StartDelay == 1
\* psutil.cpu_percent(interval=1) blocks for one second
CpuInterval == 2
\* time.sleep(1) at the end of a monitoring iteration
LoopSleep == 2
\* time.sleep(5) after an exception in a monitoring iteration
ErrorSleep == 10
\* limits.max_streams when absent (_validate_config)
DefaultMaxStreams == 50
\* load_test.concurrent_streams when absent, as _validate_config reads it
DefaultConcurrentChecked == 1
\* load_test.concurrent_streams when absent, as create_publishers reads it
DefaultConcurrentCreated == 3
\* _check_stream_health(): publisher.error_count >= 10
QuarantineThreshold == 10

Pubs == 1..NPub
Slots == 1..MaxStarts
\* the publishers a client of the publisher API drives
ClientPubs == {1}
\* the error count at which the environment stops failing publisher p
ErrCap(p) == IF p = 1 THEN MaxErrors ELSE MaxSiblingErrors
\* calls of start() made while the orchestrator is running
MaxStartAgain == 1
\* the clock stops the run at this time
MaxClock == 12
\* load_test.duration of the timed runs (0: no limit, 4 seconds)
Durations == {0, 8}
\* load_test.report_interval of the timed runs (absent, 1 second)
ReportIntervals == {{}, {2}}
\* the samples psutil returns, one below and one above both ceilings
Samples == {50, 95}
\* configurations: load_test.concurrent_streams up to MaxConcurrent,
\* limits.max_streams up to MaxLimit, up to MaxSources video sources, and
\* up to MaxCreates calls of create_publishers() that add publishers
MaxConcurrent == 4
MaxLimit == 3
MaxSources == 2
MaxCreates == 2
\* the number of launches of publisher p the environment lets fail
FailCap(p) == IF p = 1 THEN MaxFails ELSE 0

VARIABLES
    \* RTSPStreamPublisher fields, one value per publisher object
    running,        \* self.running
    error_count,    \* self.error_count
    process,        \* self.process: "none" (None), or the state of the process
                    \* the handle refers to: "alive", "termed" (alive, SIGTERM
                    \* delivered), "dead", "finished" (exited at the end of
                    \* its input)
    thread,         \* self.thread: 0 (None) or the slot of the thread object
    tpc,            \* position of every supervision thread in _publish_loop
    \* environment
    orphans,        \* live encoder processes whose handle was overwritten
    \* history
    exits,          \* exits of the current encoder process while running
    fails,          \* launches that raised
    \* the caller thread
    mpc,            \* position of the main thread
    sp,             \* publisher whose stop() is executing (0: none)
    spc,            \* position inside RTSPStreamPublisher.stop
    \* LoadTestOrchestrator
    o_running,      \* self.running
    publishers,     \* self.publishers, in creation order
    oi,             \* index of the `for publisher in self.publishers` loops
    hq,             \* unhealthy_streams still to visit in _check_stream_health
    stopRet,        \* where the executing LoadTestOrchestrator.stop returns to
    reports,        \* final reports produced
    config,         \* self.config: the settings the orchestrator reads
    \* the monitoring loop's view of its environment; times are in half
    \* seconds, the shortest sleep of the program
    now,            \* time.time() - self.start_time
    last_report,    \* last_report_time - self.start_time
    memory_percent, \* the last sample of _check_resource_limits (0: none yet)
    cpu_percent,    \* the last sample of _check_resource_limits (0: none yet)
    starts_again    \* history: calls of start() made while self.running

pubvars == <<running, error_count, process, thread, tpc, orphans, exits, fails>>
orchvars == <<o_running, publishers, oi, hq, stopRet, reports>>
auxvars == <<config, now, last_report, memory_percent, cpu_percent, starts_again>>
vars == <<running, error_count, process, thread, tpc, orphans, exits, fails,
          mpc, sp, spc, o_running, publishers, oi, hq, stopRet, reports,
          config, now, last_report, memory_percent, cpu_percent, starts_again>>

\* "loop": at `while self.running`, after the cooldown sleep if any
ThreadPcs == {"unborn", "loop", "launch", "poll", "check", "done"}

\* a process the handle refers to and that has not exited
Live(st) == st \in {"alive", "termed"}

\* threading.Thread.is_alive() of thread slot t of publisher p
ThreadAlive(p, t) == tpc[p][t] \notin {"unborn", "done"}

\* `self.thread is not None and self.thread.is_alive()`
CurThreadAlive(p) == IF thread[p] = 0 THEN FALSE ELSE ThreadAlive(p, thread[p])

\* number of live encoder processes launched by publisher p
LiveProcs(p) == orphans[p] + (IF Live(process[p]) THEN 1 ELSE 0)

\* number of live supervision threads of publisher p
LiveThreads(p) == Cardinality({t \in Slots : ThreadAlive(p, t)})

\* ------------------------------------------------ RTSPStreamPublisher.__init__
PubInit ==
    /\ running = [p \in Pubs |-> FALSE]
    /\ error_count = [p \in Pubs |-> 0]
    /\ process = [p \in Pubs |-> "none"]
    /\ thread = [p \in Pubs |-> 0]
    /\ tpc = [p \in Pubs |-> [t \in Slots |-> "unborn"]]
    /\ orphans = [p \in Pubs |-> 0]
    /\ exits = [p \in Pubs |-> 0]
    /\ fails = [p \in Pubs |-> 0]

\* ------------------------------------------------- RTSPStreamPublisher.start
\* the fields start() writes when the publisher is not running
StartFields(p) ==
    /\ running' = [running EXCEPT ![p] = TRUE]
    /\ thread' = [thread EXCEPT ![p] = thread[p] + 1]
    /\ tpc' = [tpc EXCEPT ![p][thread[p] + 1] = "loop"]

\* start(): no-op when already running
PubStart(p) ==
    /\ IF running[p]
       THEN UNCHANGED <<running, thread, tpc>>
       ELSE /\ thread[p] < MaxStarts
            /\ StartFields(p)
    /\ UNCHANGED <<error_count, process, orphans, exits, fails>>

\* start() when Thread.start() raises (no thread can be created): the flag
\* is set and the thread object assigned (lines 123-125), the thread never
\* runs (line 126)
PubStartFail(p) ==
    /\ ~running[p]
    /\ thread[p] < MaxStarts
    /\ running' = [running EXCEPT ![p] = TRUE]
    /\ thread' = [thread EXCEPT ![p] = thread[p] + 1]
    /\ UNCHANGED <<error_count, process, tpc, orphans, exits, fails>>

\* ------------------------------------------ RTSPStreamPublisher._publish_loop
\* a supervision loop that gives up at the health threshold
ThreadLoopBreaker(p, t) ==
    /\ tpc[p][t] = "loop"
    /\ tpc' = [tpc EXCEPT ![p][t] =
                 IF running[p] /\ error_count[p] < HealthThreshold
                 THEN "launch" ELSE "done"]
    /\ UNCHANGED <<running, error_count, process, thread, orphans, exits, fails>>

\* `while self.running:` (line 132)
ThreadLoop(p, t) ==
    /\ tpc[p][t] = "loop"
    /\ tpc' = [tpc EXCEPT ![p][t] = IF running[p] THEN "launch" ELSE "done"]
    /\ UNCHANGED <<running, error_count, process, thread, orphans, exits, fails>>

\* self.process = subprocess.Popen(...) (line 139)
ThreadLaunch(p, t) ==
    /\ tpc[p][t] = "launch"
    /\ process' = [process EXCEPT ![p] = "alive"]
    /\ orphans' = [orphans EXCEPT ![p] = orphans[p] + (IF Live(process[p]) THEN 1 ELSE 0)]
    /\ tpc' = [tpc EXCEPT ![p][t] = "poll"]
    /\ UNCHANGED <<running, error_count, thread, exits, fails>>

\* an increment that counts an error twice
CountErrorTwice(p) == [error_count EXCEPT ![p] = error_count[p] + 2]

\* the error counter after one more error
CountError(p) == [error_count EXCEPT ![p] = error_count[p] + 1]

\* a launch failure that ends the supervision thread
ThreadLaunchFailFatal(p, t) ==
    /\ tpc[p][t] = "launch"
    /\ fails[p] < FailCap(p)
    /\ error_count[p] < ErrCap(p)
    /\ error_count' = CountError(p)
    /\ fails' = [fails EXCEPT ![p] = fails[p] + 1]
    /\ tpc' = [tpc EXCEPT ![p][t] = "done"]
    /\ UNCHANGED <<running, process, thread, orphans, exits>>

\* Popen raises: `except Exception`, count, time.sleep(2) (lines 162-165)
ThreadLaunchFail(p, t) ==
    /\ tpc[p][t] = "launch"
    /\ fails[p] < FailCap(p)
    /\ error_count[p] < ErrCap(p)
    /\ error_count' = CountError(p)
    /\ fails' = [fails EXCEPT ![p] = fails[p] + 1]
    /\ tpc' = [tpc EXCEPT ![p][t] = "loop"]
    /\ UNCHANGED <<running, process, thread, orphans, exits>>

\* `while self.running and self.process.poll() is None: time.sleep(0.1)`
\* (lines 147-148): the step that leaves the polling loop
ThreadPoll(p, t) ==
    /\ tpc[p][t] = "poll"
    /\ ~running[p] \/ ~Live(process[p])
    /\ tpc' = [tpc EXCEPT ![p][t] = "check"]
    /\ UNCHANGED <<running, error_count, process, thread, orphans, exits, fails>>

\* a supervision thread that clears the running flag itself when the error
\* count reaches the health threshold
ThreadCheckGivingUp(p, t) ==
    /\ tpc[p][t] = "check"
    /\ error_count' = IF running[p] THEN CountError(p) ELSE error_count
    /\ running' = IF running[p] /\ error_count[p] + 1 >= HealthThreshold
                  THEN [running EXCEPT ![p] = FALSE] ELSE running
    /\ tpc' = [tpc EXCEPT ![p][t] = "loop"]
    /\ UNCHANGED <<process, thread, orphans, exits, fails>>

\* a supervision thread that takes the end of the input for the end of its
\* work: it counts no error and leaves the loop
ThreadCheckPassDone(p, t) ==
    /\ tpc[p][t] = "check"
    /\ error_count' = IF running[p] /\ process[p] # "finished"
                      THEN CountError(p) ELSE error_count
    /\ tpc' = [tpc EXCEPT ![p][t] = IF process[p] = "finished" THEN "done" ELSE "loop"]
    /\ UNCHANGED <<running, process, thread, orphans, exits, fails>>

\* `if self.running:` ... self.error_count += 1, time.sleep(2) (lines 151-160)
ThreadCheck(p, t) ==
    /\ tpc[p][t] = "check"
    /\ error_count' = IF running[p] THEN CountError(p) ELSE error_count
    /\ tpc' = [tpc EXCEPT ![p][t] = "loop"]
    /\ UNCHANGED <<running, process, thread, orphans, exits, fails>>

ThreadStep(p, t) ==
    \/ ThreadLoop(p, t)
    \/ ThreadLaunch(p, t)
    \/ ThreadLaunchFail(p, t)
    \/ ThreadPoll(p, t)
    \/ ThreadCheck(p, t)

\* ------------------------------------------------------------ the encoder
\* the process the handle refers to exits by itself (crash, end of input,
\* or in reaction to SIGTERM)
ProcExit(p) ==
    /\ Live(process[p])
    /\ error_count[p] < ErrCap(p) \/ process[p] = "termed"
    /\ process' = [process EXCEPT ![p] = "dead"]
    /\ exits' = [exits EXCEPT ![p] = exits[p] + (IF running[p] THEN 1 ELSE 0)]
    /\ UNCHANGED <<running, error_count, thread, tpc, orphans, fails>>

\* "-stream_loop", "-1" if self.loop else "0" (line 95): the number of
\* repetitions of the input the encoder is asked for, -1 meaning without end
StreamLoop(loop) == IF loop THEN -1 ELSE 0

\* the encoder reaches the end of its input and exits with status 0; it
\* does so only when it was not asked to loop without end
ProcFinish(p, loop) ==
    /\ process[p] = "alive"
    /\ StreamLoop(loop) # -1
    /\ error_count[p] < ErrCap(p)
    /\ process' = [process EXCEPT ![p] = "finished"]
    /\ exits' = [exits EXCEPT ![p] = exits[p] + (IF running[p] THEN 1 ELSE 0)]
    /\ UNCHANGED <<running, error_count, thread, tpc, orphans, fails>>

\* a process whose handle was lost exits
OrphanExit(p) ==
    /\ orphans[p] > 0
    /\ orphans' = [orphans EXCEPT ![p] = orphans[p] - 1]
    /\ UNCHANGED <<running, error_count, process, thread, tpc, exits, fails>>

\* -------------------------------------------------- RTSPStreamPublisher.stop
\* a stop() that also clears the error counter
StopFieldsReset(p) ==
    /\ running' = [running EXCEPT ![p] = FALSE]
    /\ error_count' = [error_count EXCEPT ![p] = 0]

\* a stop() that clears the flag of every publisher (a class attribute)
StopFieldsAll(p) ==
    /\ running' = [q \in Pubs |-> FALSE]
    /\ UNCHANGED error_count

\* self.running = False (line 170); the error counter is left as it is
StopFields(p) ==
    /\ running' = [running EXCEPT ![p] = FALSE]
    /\ UNCHANGED error_count

\* entry of stop() on publisher p
PubStopBegin(p) ==
    /\ StopFields(p)
    /\ sp' = p
    /\ spc' = "term"
    /\ UNCHANGED <<process, thread, tpc, orphans, exits, fails>>

\* `if self.process:` self.process.terminate() (lines 173-175)
PubStopTerm ==
    /\ spc = "term"
    /\ IF process[sp] = "none"
       THEN /\ spc' = "join"
            /\ UNCHANGED process
       ELSE /\ spc' = "wait"
            /\ process' = [process EXCEPT ![sp] =
                             IF process[sp] = "alive" THEN "termed" ELSE process[sp]]
    /\ UNCHANGED <<running, error_count, thread, tpc, orphans, exits, fails, sp>>

\* self.process.wait(timeout=5) (lines 176-177): returns when the process has
\* exited, raises TimeoutExpired while it is alive
PubStopWait ==
    /\ spc = "wait"
    /\ spc' = IF Live(process[sp]) THEN "kill" ELSE "join"
    /\ UNCHANGED <<pubvars, sp>>

\* self.process.kill() (line 179)
PubStopKill ==
    /\ spc = "kill"
    /\ process' = [process EXCEPT ![sp] = "dead"]
    /\ spc' = "join"
    /\ UNCHANGED <<running, error_count, thread, tpc, orphans, exits, fails, sp>>

\* self.process.kill() raises inside the TimeoutExpired handler (lines
\* 178-179): no `except` of stop() catches it, the call ends with the
\* exception and the process stays as it is
PubStopKillFail ==
    /\ spc = "kill"
    /\ spc' = "raised"
    /\ UNCHANGED <<pubvars, sp>>

\* self.process.kill() returns and the process has not died: the signal is
\* delivered asynchronously and stop() does not wait for the process again
PubStopKillPending ==
    /\ spc = "kill"
    /\ spc' = "join"
    /\ UNCHANGED <<pubvars, sp>>

\* `if self.thread and self.thread.is_alive(): self.thread.join(timeout=5)`
\* (lines 184-185): the thread is None or has finished
PubStopJoin ==
    /\ spc = "join"
    /\ ~CurThreadAlive(sp)
    /\ spc' = "ret"
    /\ UNCHANGED <<pubvars, sp>>

\* a join without timeout: the call stays in it while the thread is alive
PubStopJoinForever ==
    /\ spc = "join"
    /\ CurThreadAlive(sp)
    /\ spc' = "join"
    /\ UNCHANGED <<pubvars, sp>>

\* join(timeout=5) returns with the thread still alive
PubStopJoinTimeout ==
    /\ spc = "join"
    /\ CurThreadAlive(sp)
    /\ spc' = "ret"
    /\ UNCHANGED <<pubvars, sp>>

\* ---------------------------------------------- RTSPStreamPublisher.is_healthy
\* a health predicate that accepts an error count equal to the threshold
is_healthy_inclusive(p) ==
    /\ running[p]
    /\ CurThreadAlive(p)
    /\ error_count[p] <= HealthThreshold

is_healthy(p) ==
    /\ running[p]
    /\ CurThreadAlive(p)
    /\ error_count[p] < HealthThreshold



\* ------------------------------------------------ LoadTestOrchestrator.__init__
OrchInit ==
    /\ o_running = FALSE
    /\ publishers = <<>>
    /\ oi = 0
    /\ hq = <<>>
    /\ stopRet = "none"
    /\ reports = 0

\* the elements of a sequence
Range(s) == {s[i] : i \in 1..Len(s)}

\* ------------------------------------------------------------ self.config
\* dict.get(key, default): a setting is the empty set when the key is absent
\* and the singleton of its value otherwise
Get(setting, default) == IF setting = {} THEN default ELSE CHOOSE v \in setting : TRUE

\* the configuration of the runs: one video, NPub streams, no duration limit,
\* every limit left to its default
RunConfig ==
    [video |-> TRUE, video_sources |-> <<>>, rtsp_server |-> TRUE,
     base_url |-> "rtsp://host:8554", concurrent_streams |-> {NPub},
     max_streams |-> {}, duration |-> 0, report_interval |-> {}, loop |-> TRUE]

\* the configuration and the clock before the run
AuxInit ==
    /\ config = RunConfig
    /\ now = 0
    /\ last_report = 0
    /\ memory_percent = 0
    /\ cpu_percent = 0
    /\ starts_again = 0

\* ------------------------------------------ LoadTestOrchestrator._validate_config
\* TRUE when _validate_config raises nothing (lines 67-80)
validate_config(cfg) ==
    /\ cfg.video_sources # <<>> \/ cfg.video
    /\ cfg.rtsp_server
    /\ ~(Get(cfg.concurrent_streams, DefaultConcurrentChecked)
            > Get(cfg.max_streams, DefaultMaxStreams))

\* ------------------------------------------ LoadTestOrchestrator.create_publishers
\* one publisher per configured stream, appended in order
create_publishers == [i \in 1..NPub |-> i]

\* a stream name counted from zero
StreamNameFromZero(i) == "stream" \o ToString(i - 1)

\* stream_name = f"stream{i}" (line 105)
StreamName(i) == "stream" \o ToString(i)

\* rtsp_url = f"{rtsp_base_url}/{stream_name}" (lines 106, 130)
RtspUrl(base, name) == base \o "/" \o name

\* the constructor arguments that tell the publishers apart
Publisher(base, name) == [stream_name |-> name, rtsp_url |-> RtspUrl(base, name)]

\* `for i in range(1, concurrent_streams + 1)` from i on (lines 104-120)
RECURSIVE FromOneVideo(_, _, _)
FromOneVideo(base, i, n) ==
    IF i > n THEN <<>>
    ELSE <<Publisher(base, StreamName(i))>> \o FromOneVideo(base, i + 1, n)

\* `for source in video_sources` (lines 127-145)
RECURSIVE FromSources(_, _)
FromSources(base, sources) ==
    IF sources = <<>> THEN <<>>
    ELSE <<Publisher(base, Head(sources))>> \o FromSources(base, Tail(sources))

\* the publishers one call of create_publishers() appends (lines 90-146)
NewPublishers(cfg) ==
    IF cfg.video
    THEN FromOneVideo(cfg.base_url, 1,
                      Get(cfg.concurrent_streams, DefaultConcurrentCreated))
    ELSE IF cfg.video_sources # <<>>
         THEN FromSources(cfg.base_url, cfg.video_sources)
         ELSE <<>>

\* ------------------------------------------------- LoadTestOrchestrator.stop
\* stop() on a running orchestrator: self.running = False, then the loop over
\* the publishers (lines 289-293); ret is where the call returns to
OrchStopBegin(ret) ==
    /\ o_running' = FALSE
    /\ oi' = 1
    /\ stopRet' = ret
    /\ mpc' = "stopping"
    /\ sp' = 0
    /\ spc' = "idle"
    /\ UNCHANGED <<pubvars, publishers, hq, reports>>

\* `for publisher in self.publishers: publisher.stop()` (lines 293-295)
OrchStopNext ==
    /\ mpc = "stopping"
    /\ spc \in {"idle", "ret"}
    /\ oi <= Len(publishers)
    /\ PubStopBegin(publishers[oi])
    /\ oi' = oi + 1
    /\ UNCHANGED <<mpc, o_running, publishers, hq, stopRet, reports>>

\* a loop over the publishers that an exception of publisher.stop() ends
OrchStopUncaught ==
    /\ mpc = "stopping"
    /\ spc = "raised"
    /\ spc' = "ret"
    /\ oi' = Len(publishers) + 1
    /\ UNCHANGED <<pubvars, mpc, sp, o_running, publishers, hq, stopRet, reports>>

\* `except Exception as e: logger.error(...)` around publisher.stop() (lines
\* 296-297): the loop goes on with the next publisher
OrchStopCaught ==
    /\ mpc = "stopping"
    /\ spc = "raised"
    /\ spc' = "ret"
    /\ UNCHANGED <<pubvars, mpc, sp, orchvars>>

\* the publishers failing is_healthy(), in collection order (line 272)
RECURSIVE Unhealthy(_)
Unhealthy(ps) ==
    IF ps = <<>> THEN <<>>
    ELSE IF is_healthy(Head(ps)) THEN Unhealthy(Tail(ps))
         ELSE <<Head(ps)>> \o Unhealthy(Tail(ps))

\* where the main thread continues when stop() returns
AfterStop(ret) ==
    CASE ret = "mem" -> "health"
      [] ret = "loopexit" -> "finally"
      [] OTHER -> "exited"

\* a stop() that writes the report when the last publisher is still to stop
OrchStopReportEarly ==
    /\ mpc = "stopping"
    /\ spc \in {"idle", "ret"}
    /\ oi >= Len(publishers)
    /\ reports' = reports + 1
    /\ mpc' = AfterStop(stopRet)
    /\ hq' = IF stopRet = "mem" THEN Unhealthy(publishers) ELSE hq
    /\ stopRet' = "none"
    /\ sp' = 0
    /\ spc' = "idle"
    /\ UNCHANGED <<pubvars, o_running, publishers, oi>>

\* self._generate_final_report() and the return of stop() (lines 300-302).
\* Returning into _check_resource_limits, the tick goes on with the health
\* audit; returning into the signal handler, sys.exit(0) runs main's
\* `finally`, whose stop() finds the orchestrator not running.
OrchStopReport ==
    /\ mpc = "stopping"
    /\ spc \in {"idle", "ret"}
    /\ oi > Len(publishers)
    /\ reports' = reports + 1
    /\ mpc' = AfterStop(stopRet)
    /\ hq' = IF stopRet = "mem" THEN Unhealthy(publishers) ELSE hq
    /\ stopRet' = "none"
    /\ sp' = 0
    /\ spc' = "idle"
    /\ UNCHANGED <<pubvars, o_running, publishers, oi>>

\* ------------------------------------------------- LoadTestOrchestrator.start
\* start() from main: create the publishers if there are none, mark running
\* (lines 152-160)
OrchStart ==
    /\ mpc = "main"
    /\ ~o_running
    /\ publishers' = IF publishers = <<>> THEN create_publishers ELSE publishers
    /\ o_running' = TRUE
    /\ oi' = 1
    /\ mpc' = "starting"
    /\ UNCHANGED <<pubvars, sp, spc, hq, stopRet, reports>>

\* `for publisher in self.publishers: publisher.start()` (lines 167-170)
OrchStartNext ==
    /\ mpc = "starting"
    /\ oi <= Len(publishers)
    /\ PubStart(publishers[oi])
    /\ oi' = oi + 1
    /\ UNCHANGED <<mpc, sp, spc, o_running, publishers, hq, stopRet, reports>>

\* a start() that enters the monitoring loop with the last publisher still to
\* start
OrchStartDoneEarly ==
    /\ mpc = "starting"
    /\ oi >= Len(publishers)
    /\ mpc' = "mon"
    /\ UNCHANGED <<pubvars, sp, spc, orchvars>>

\* a start loop without handler: the exception of publisher.start() leaves
\* start() and reaches main, which logs it and goes to its `finally`
OrchStartNextFailUncaught ==
    /\ mpc = "starting"
    /\ oi <= Len(publishers)
    /\ PubStartFail(publishers[oi])
    /\ mpc' = "finally"
    /\ UNCHANGED <<sp, spc, orchvars>>

\* publisher.start() raises: `except Exception as e: logger.error(...)`, the
\* loop goes on with the next publisher (lines 171-172)
OrchStartNextFail ==
    /\ mpc = "starting"
    /\ oi <= Len(publishers)
    /\ PubStartFail(publishers[oi])
    /\ oi' = oi + 1
    /\ UNCHANGED <<mpc, sp, spc, o_running, publishers, hq, stopRet, reports>>

\* self._monitoring_loop() is entered (line 177)
OrchStartDone ==
    /\ mpc = "starting"
    /\ oi > Len(publishers)
    /\ mpc' = "mon"
    /\ UNCHANGED <<pubvars, sp, spc, orchvars>>

\* ---------------------------------------- LoadTestOrchestrator._monitoring_loop
\* `while self.running` is false: the loop ends, the stop() after it returns
\* at once, start() returns to main (lines 186, 216)
MonLoopExit ==
    /\ mpc = "mon"
    /\ ~o_running
    /\ mpc' = "finally"
    /\ UNCHANGED <<pubvars, sp, spc, orchvars>>

\* the duration limit is reached: break, then self.stop() (lines 192-194, 216)
MonDuration ==
    /\ mpc = "mon"
    /\ o_running
    /\ OrchStopBegin("loopexit")

\* _check_resource_limits: the memory sample exceeds the ceiling (lines 256-261)
MonMemoryBreach ==
    /\ mpc = "mon"
    /\ o_running
    /\ OrchStopBegin("mem")

\* the memory sample is within the ceiling; _check_stream_health collects the
\* unhealthy publishers (lines 202-205, 272)
MonHealth ==
    /\ mpc = "mon"
    /\ o_running
    /\ hq' = Unhealthy(publishers)
    /\ mpc' = "health"
    /\ UNCHANGED <<pubvars, sp, spc, o_running, publishers, oi, stopRet, reports>>

\* a health audit that reports the unhealthy publishers and stops none
HealthNextReportOnly ==
    /\ mpc = "health"
    /\ spc \in {"idle", "ret"}
    /\ hq # <<>>
    /\ hq' = Tail(hq)
    /\ sp' = 0
    /\ spc' = "idle"
    /\ UNCHANGED <<pubvars, mpc, o_running, publishers, oi, stopRet, reports>>

\* a health audit that also drops the publisher it stops from the collection
HealthNextRemoving ==
    /\ mpc = "health"
    /\ spc \in {"idle", "ret"}
    /\ hq # <<>>
    /\ hq' = Tail(hq)
    /\ IF error_count[Head(hq)] >= QuarantineThreshold
       THEN /\ PubStopBegin(Head(hq))
            /\ publishers' = SelectSeq(publishers, LAMBDA q : q # Head(hq))
       ELSE /\ sp' = 0
            /\ spc' = "idle"
            /\ UNCHANGED <<pubvars, publishers>>
    /\ UNCHANGED <<mpc, o_running, oi, stopRet, reports>>

\* a health audit that stops every unhealthy publisher
HealthNextStopAll ==
    /\ mpc = "health"
    /\ spc \in {"idle", "ret"}
    /\ hq # <<>>
    /\ hq' = Tail(hq)
    /\ PubStopBegin(Head(hq))
    /\ UNCHANGED <<mpc, o_running, publishers, oi, stopRet, reports>>

\* `for publisher in unhealthy_streams: if publisher.error_count >= 10:
\* publisher.stop()` (lines 277-282)
HealthNext ==
    /\ mpc = "health"
    /\ spc \in {"idle", "ret"}
    /\ hq # <<>>
    /\ hq' = Tail(hq)
    /\ IF error_count[Head(hq)] >= QuarantineThreshold
       THEN PubStopBegin(Head(hq))
       ELSE /\ sp' = 0
            /\ spc' = "idle"
            /\ UNCHANGED pubvars
    /\ UNCHANGED <<mpc, o_running, publishers, oi, stopRet, reports>>

\* an audit that ends by starting a stopped publisher again
HealthDoneRestarting ==
    /\ mpc = "health"
    /\ spc \in {"idle", "ret"}
    /\ hq = <<>>
    /\ mpc' = "mon"
    /\ sp' = 0
    /\ spc' = "idle"
    /\ IF \E p \in Range(publishers) : ~running[p] /\ thread[p] < MaxStarts
       THEN \E p \in Range(publishers) :
               /\ ~running[p] /\ thread[p] < MaxStarts
               /\ PubStart(p)
       ELSE UNCHANGED pubvars
    /\ UNCHANGED orchvars

\* the audit is over: time.sleep(1), next iteration (line 207)
HealthDone ==
    /\ mpc = "health"
    /\ spc \in {"idle", "ret"}
    /\ hq = <<>>
    /\ mpc' = "mon"
    /\ sp' = 0
    /\ spc' = "idle"
    /\ UNCHANGED <<pubvars, orchvars>>

\* publisher.stop() raises inside _check_stream_health: the exception ends the
\* audit and reaches the `except Exception` of the loop (lines 212-213)
HealthError ==
    /\ mpc = "health"
    /\ spc = "raised"
    /\ mpc' = "monerr"
    /\ hq' = <<>>
    /\ sp' = 0
    /\ spc' = "idle"
    /\ UNCHANGED <<pubvars, o_running, publishers, oi, stopRet, reports>>

\* an exception raised at the start of an iteration's body (by psutil, by the
\* status report) reaches the `except Exception` of the loop (lines 212-213)
MonError ==
    /\ mpc = "mon"
    /\ o_running
    /\ mpc' = "monerr"
    /\ UNCHANGED <<pubvars, sp, spc, orchvars>>

\* the handler has logged the error and slept: time.sleep(5), then the next
\* iteration (line 214)
MonErrResume ==
    /\ mpc = "monerr"
    /\ mpc' = "mon"
    /\ UNCHANGED <<pubvars, sp, spc, orchvars>>

\* -------------------------------------------------------------------- main
\* main's `finally: orchestrator.stop()` (lines 214-215), then the program ends
MainFinally ==
    /\ mpc = "finally"
    /\ IF o_running
       THEN OrchStopBegin("finally")
       ELSE /\ mpc' = "exited"
            /\ UNCHANGED <<pubvars, sp, spc, orchvars>>

\* ---------------------------------------- LoadTestOrchestrator._signal_handler
\* SIGINT or SIGTERM is delivered to the main thread: the handler calls
\* self.stop() and then sys.exit(0) (lines 84-86).  SystemExit unwinds
\* whatever the main thread was executing, through main's `finally`.
Signal ==
    /\ mpc \in {"main", "starting", "mon", "health", "monerr", "stopping", "finally"}
    /\ IF o_running
       THEN OrchStopBegin("signal")
       ELSE /\ mpc' = "exited"
            /\ sp' = 0
            /\ spc' = "idle"
            /\ stopRet' = "none"
            /\ UNCHANGED <<pubvars, o_running, publishers, oi, hq, reports>>

\* ------------------------------------------------------------------------
\* A client of the publisher API: one thread that calls start() and stop()
\* on a publisher in any order.
InitPub ==
    /\ PubInit
    /\ OrchInit
    /\ AuxInit
    /\ mpc = "client"
    /\ sp = 0
    /\ spc = "idle"

ClientStart(p) ==
    /\ mpc = "client" /\ spc = "idle"
    /\ PubStart(p)
    /\ UNCHANGED <<mpc, sp, spc, orchvars, auxvars>>

ClientStop(p) ==
    /\ mpc = "client" /\ spc = "idle"
    /\ PubStopBegin(p)
    /\ UNCHANGED <<mpc, orchvars, auxvars>>

ClientStopReturn ==
    /\ mpc = "client" /\ spc = "ret"
    /\ spc' = "idle"
    /\ sp' = 0
    /\ UNCHANGED <<pubvars, mpc, orchvars, auxvars>>

\* a step of a supervision thread (a daemon thread: it ends with the program)
Supervise(p, t) ==
    /\ mpc # "exited"
    /\ ThreadStep(p, t)
    /\ UNCHANGED <<mpc, sp, spc, orchvars, auxvars>>

\* the encoder of publisher p exits while the program runs
Encoder(p) ==
    /\ mpc # "exited"
    /\ ProcExit(p)
    /\ UNCHANGED <<mpc, sp, spc, orchvars, auxvars>>

\* steps of the supervision threads and of the encoder processes
Background ==
    \/ \E p \in Pubs, t \in Slots : Supervise(p, t)
    \/ \E p \in Pubs : Encoder(p)

\* an encoder process whose handle was overwritten exits
LostProcess == \E p \in Pubs : OrphanExit(p) /\ UNCHANGED <<mpc, sp, spc, orchvars, auxvars>>

\* the steps of a RTSPStreamPublisher.stop() in progress, every join waiting
\* for the thread
StopSteps ==
    \/ PubStopTerm /\ UNCHANGED <<mpc, orchvars, auxvars>>
    \/ PubStopWait /\ UNCHANGED <<mpc, orchvars, auxvars>>
    \/ PubStopKill /\ UNCHANGED <<mpc, orchvars, auxvars>>
    \/ PubStopJoin /\ UNCHANGED <<mpc, orchvars, auxvars>>

JoinTimeout == PubStopJoinTimeout /\ UNCHANGED <<mpc, orchvars, auxvars>>

NextPubJoined ==
    \/ \E p \in ClientPubs : ClientStart(p)
    \/ \E p \in ClientPubs : ClientStop(p)
    \/ ClientStopReturn
    \/ StopSteps
    \/ Background
    \/ LostProcess

NextPub ==
    \/ NextPubJoined
    \/ JoinTimeout

\* the publisher API under any caller; join(timeout=5) may time out
SpecPub == InitPub /\ [][NextPub]_vars

\* the publisher API under any caller; every join waits for the thread
SpecPubJoined == InitPub /\ [][NextPubJoined]_vars

\* ------------------------------------------------------------------------
\* The publisher API when the force-kill can fail or stay without effect.
KillOutcomes ==
    \/ PubStopKillFail /\ UNCHANGED <<mpc, orchvars, auxvars>>
    \/ PubStopKillPending /\ UNCHANGED <<mpc, orchvars, auxvars>>

\* the client's stop() call ends with the exception of kill()
ClientStopRaised ==
    /\ mpc = "client" /\ spc = "raised"
    /\ spc' = "idle"
    /\ sp' = 0
    /\ UNCHANGED <<pubvars, mpc, orchvars, auxvars>>

NextPubHard ==
    \/ NextPub
    \/ KillOutcomes
    \/ ClientStopRaised

SpecPubHard == InitPub /\ [][NextPubHard]_vars

\* ------------------------------------------------------------------------
\* The program: main() constructs the orchestrator and calls start().
Init ==
    /\ PubInit
    /\ OrchInit
    /\ AuxInit
    /\ mpc = "main"
    /\ sp = 0
    /\ spc = "idle"

MainThread ==
    \/ OrchStart /\ UNCHANGED auxvars
    \/ OrchStartNext /\ UNCHANGED auxvars
    \/ OrchStartDone /\ UNCHANGED auxvars
    \/ MonLoopExit /\ UNCHANGED auxvars
    \/ MonDuration /\ UNCHANGED auxvars
    \/ MonMemoryBreach /\ UNCHANGED auxvars
    \/ MonHealth /\ UNCHANGED auxvars
    \/ HealthNext /\ UNCHANGED auxvars
    \/ HealthDone /\ UNCHANGED auxvars
    \/ OrchStopNext /\ UNCHANGED auxvars
    \/ OrchStopReport /\ UNCHANGED auxvars
    \/ MainFinally /\ UNCHANGED auxvars

\* a termination signal is delivered while the program runs
Interrupt == Signal /\ UNCHANGED auxvars

NextJoined ==
    \/ MainThread
    \/ StopSteps
    \/ Interrupt
    \/ Background

Next ==
    \/ NextJoined
    \/ JoinTimeout

Spec == Init /\ [][Next]_vars

\* the program when every join waits for the thread
SpecJoined == Init /\ [][NextJoined]_vars

\* ------------------------------------------------------------------------
\* The program when kill() can fail in RTSPStreamPublisher.stop.
StopErrors ==
    \/ PubStopKillFail /\ UNCHANGED <<mpc, orchvars, auxvars>>
    \/ OrchStopCaught /\ UNCHANGED auxvars
    \/ HealthError /\ UNCHANGED auxvars
    \/ MonErrResume /\ UNCHANGED auxvars

NextStopErr ==
    \/ Next
    \/ StopErrors

SpecStopErr == Init /\ [][NextStopErr]_vars

\* ------------------------------------------------------------------------
\* The program when the start of a publisher can fail.
StartFailure == OrchStartNextFail /\ UNCHANGED auxvars

NextStartFail ==
    \/ Next
    \/ StartFailure

SpecStartFail == Init /\ [][NextStartFail]_vars

\* ------------------------------------------------------------------------
\* The program with video.loop true or false: without the loop the encoder
\* also ends at the end of the video.
InitSinglePass ==
    /\ PubInit
    /\ OrchInit
    /\ mpc = "main"
    /\ sp = 0
    /\ spc = "idle"
    /\ \E l \in BOOLEAN : config = [RunConfig EXCEPT !.loop = l]
    /\ now = 0
    /\ last_report = 0
    /\ memory_percent = 0
    /\ cpu_percent = 0
    /\ starts_again = 0

\* the encoder of publisher p ends its single pass while the program runs
EncoderFinish(p) ==
    /\ mpc # "exited"
    /\ ProcFinish(p, config.loop)
    /\ UNCHANGED <<mpc, sp, spc, orchvars, auxvars>>

NextSinglePass ==
    \/ Next
    \/ \E p \in Pubs : EncoderFinish(p)

SpecSinglePass == InitSinglePass /\ [][NextSinglePass]_vars

\* ------------------------------------------------------------------------
\* The orchestrator under any configuration: the constructor validates it,
\* then a client calls create_publishers() and start() in any order.  A
\* publisher is the pair of its stream name and its endpoint; what start()
\* does after it has created the publishers is the subject of the runs above.
SourceNames == {"cam1", "cam2"}

\* a setting that is absent or one of the values
Setting(values) == {{}} \cup {{v} : v \in values}

Configs ==
    [video : BOOLEAN,
     video_sources : UNION {[1..n -> SourceNames] : n \in 0..MaxSources},
     rtsp_server : BOOLEAN,
     base_url : {"rtsp://host:8554"},
     concurrent_streams : Setting(0..MaxConcurrent),
     max_streams : Setting(1..MaxLimit),
     duration : {0},
     report_interval : {{}},
     loop : {TRUE}]

InitConfig ==
    /\ PubInit
    /\ OrchInit
    /\ mpc = "new"
    /\ sp = 0
    /\ spc = "idle"
    /\ config \in Configs
    /\ now = 0
    /\ last_report = 0
    /\ memory_percent = 0
    /\ cpu_percent = 0
    /\ starts_again = 0

\* LoadTestOrchestrator(config): _validate_config() raises or not (line 41)
Construct ==
    /\ mpc = "new"
    /\ mpc' = IF validate_config(config) THEN "ready" ELSE "rejected"
    /\ UNCHANGED <<pubvars, sp, spc, orchvars, auxvars>>

\* create_publishers() called on a constructed orchestrator
CallCreatePublishers ==
    /\ mpc = "ready"
    /\ Len(publishers) < MaxCreates * Len(NewPublishers(config))
    /\ publishers' = publishers \o NewPublishers(config)
    /\ UNCHANGED <<pubvars, mpc, sp, spc, o_running, oi, hq, stopRet, reports, auxvars>>

\* start() called on a constructed orchestrator: `if not self.publishers:
\* self.create_publishers()` (lines 156-157)
CallStart ==
    /\ mpc = "ready"
    /\ publishers' = IF publishers = <<>> THEN NewPublishers(config) ELSE publishers
    /\ UNCHANGED <<pubvars, mpc, sp, spc, o_running, oi, hq, stopRet, reports, auxvars>>

NextConfig ==
    \/ Construct
    \/ CallCreatePublishers
    \/ CallStart

SpecConfig == InitConfig /\ [][NextConfig]_vars

\* ------------------------------------------------------------------------
\* The orchestrator when the constructor of a publisher can raise (the video
\* file is missing or cannot be opened).

\* start() on an orchestrator without publishers calls create_publishers()
\* (lines 156-157); the constructor of the k-th publisher raises (lines 61-72
\* of stream_publisher.py): the publishers before it are in the collection
\* already (lines 120, 145), the exception leaves create_publishers() and
\* start() before self.running is set
CreateFailure ==
    /\ mpc = "ready"
    /\ publishers = <<>>
    /\ \E k \in 1..Len(NewPublishers(config)) :
          publishers' = SubSeq(NewPublishers(config), 1, k - 1)
    /\ mpc' = "create_failed"
    /\ UNCHANGED <<pubvars, sp, spc, o_running, oi, hq, stopRet, reports, auxvars>>

\* start() called again after the failure, every video now accessible: it
\* creates publishers only if there are none, and marks the orchestrator
\* running (lines 152-160)
StartAfterFailure ==
    /\ mpc = "create_failed"
    /\ ~o_running
    /\ publishers' = IF publishers = <<>> THEN NewPublishers(config) ELSE publishers
    /\ o_running' = TRUE
    /\ mpc' = "started"
    /\ UNCHANGED <<pubvars, sp, spc, oi, hq, stopRet, reports, auxvars>>

NextCreateFail ==
    \/ NextConfig
    \/ CreateFailure
    \/ StartAfterFailure

SpecCreateFail == InitConfig /\ [][NextCreateFail]_vars

\* ------------------------------------------------------------------------
\* The program with its clock: every blocking call takes the time it asks for
\* (the bounded waits of publisher.stop() and every other statement take
\* none), the duration limit and the report interval come from the
\* configuration, the resource samples from the environment.
InitTimed ==
    /\ PubInit
    /\ OrchInit
    /\ mpc = "main"
    /\ sp = 0
    /\ spc = "idle"
    /\ \E d \in Durations, r \in ReportIntervals :
          config = [RunConfig EXCEPT !.duration = d, !.report_interval = r]
    /\ now = 0
    /\ last_report = 0
    /\ memory_percent = 0
    /\ cpu_percent = 0
    /\ starts_again = 0

\* the call blocks for d
Elapse(d) ==
    /\ now + d <= MaxClock
    /\ now' = now + d

\* `duration > 0 and elapsed >= duration` (line 192)
DurationReached == config.duration > 0 /\ now >= config.duration

\* `current_time - last_report_time >= report_interval` (line 197)
ReportDue == now - last_report >= Get(config.report_interval, DefaultReportInterval)

\* _print_status_report() samples the CPU for one second (lines 198-199, 225)
StatusReport ==
    /\ last_report' = IF ReportDue THEN now ELSE last_report

ReportTime == IF ReportDue THEN CpuInterval ELSE 0

\* self.start_time = time.time() (line 160)
TimedStart ==
    /\ OrchStart
    /\ now' = 0
    /\ UNCHANGED <<config, last_report, memory_percent, cpu_percent, starts_again>>

\* publisher.start(), time.sleep(0.5) (lines 169-170)
TimedStartNext ==
    /\ OrchStartNext
    /\ Elapse(StartDelay)
    /\ UNCHANGED <<config, last_report, memory_percent, cpu_percent, starts_again>>

\* last_report_time = time.time() (line 184)
TimedStartDone ==
    /\ OrchStartDone
    /\ last_report' = now
    /\ UNCHANGED <<config, now, memory_percent, cpu_percent, starts_again>>

\* the duration check of an iteration (lines 188-194)
TimedDuration ==
    /\ DurationReached
    /\ MonDuration
    /\ UNCHANGED auxvars

\* an iteration whose memory sample exceeds the ceiling (lines 196-199,
\* 253-261)
TimedMemoryBreach ==
    /\ ~DurationReached
    /\ \E m \in Samples :
          /\ m > MaxMemoryPercent
          /\ memory_percent' = m
    /\ MonMemoryBreach
    /\ StatusReport
    /\ Elapse(ReportTime)
    /\ UNCHANGED <<config, cpu_percent, starts_again>>

\* an iteration that warns about the memory and stops nothing
TimedCheckMemorySoft ==
    /\ ~DurationReached
    /\ \E m \in Samples : memory_percent' = m
    /\ \E c \in Samples : cpu_percent' = c
    /\ MonHealth
    /\ StatusReport
    /\ Elapse(ReportTime + CpuInterval)
    /\ UNCHANGED <<config, starts_again>>

\* an iteration that shuts the test down on a CPU sample above the ceiling
TimedCheckCpuHard ==
    /\ ~DurationReached
    /\ \E m \in Samples :
          /\ ~(m > MaxMemoryPercent)
          /\ memory_percent' = m
    /\ \E c \in Samples :
          /\ cpu_percent' = c
          /\ IF c > MaxCpuPercent THEN MonMemoryBreach ELSE MonHealth
    /\ StatusReport
    /\ Elapse(ReportTime + CpuInterval)
    /\ UNCHANGED <<config, starts_again>>

\* an iteration whose memory sample is within the ceiling: the CPU sample,
\* its warning, the list of the unhealthy publishers (lines 196-205, 253-272)
TimedCheck ==
    /\ ~DurationReached
    /\ \E m \in Samples :
          /\ ~(m > MaxMemoryPercent)
          /\ memory_percent' = m
    /\ \E c \in Samples : cpu_percent' = c
    /\ MonHealth
    /\ StatusReport
    /\ Elapse(ReportTime + CpuInterval)
    /\ UNCHANGED <<config, starts_again>>

\* stop() returns; into _check_resource_limits it returns to the CPU check
\* (lines 261-268)
TimedStopReport ==
    /\ OrchStopReport
    /\ IF stopRet = "mem"
       THEN /\ \E c \in Samples : cpu_percent' = c
            /\ Elapse(CpuInterval)
       ELSE UNCHANGED <<now, cpu_percent>>
    /\ UNCHANGED <<config, last_report, memory_percent, starts_again>>

\* time.sleep(1) (line 207)
TimedHealthDone ==
    /\ HealthDone
    /\ Elapse(LoopSleep)
    /\ UNCHANGED <<config, last_report, memory_percent, cpu_percent, starts_again>>

\* an exception in the body of an iteration (lines 212-213)
TimedError ==
    /\ ~DurationReached
    /\ MonError
    /\ UNCHANGED auxvars

\* time.sleep(5) (line 214)
TimedErrResume ==
    /\ MonErrResume
    /\ Elapse(ErrorSleep)
    /\ UNCHANGED <<config, last_report, memory_percent, cpu_percent, starts_again>>

TimedMainThread ==
    \/ TimedStart
    \/ TimedStartNext
    \/ TimedStartDone
    \/ MonLoopExit /\ UNCHANGED auxvars
    \/ TimedDuration
    \/ TimedMemoryBreach
    \/ TimedCheck
    \/ HealthNext /\ UNCHANGED auxvars
    \/ TimedHealthDone
    \/ TimedError
    \/ TimedErrResume
    \/ OrchStopNext /\ UNCHANGED auxvars
    \/ TimedStopReport
    \/ MainFinally /\ UNCHANGED auxvars

\* in the timed runs the encoder of every publisher stops crashing at
\* MaxSiblingErrors errors
TimedEncoder(p) ==
    /\ error_count[p] < MaxSiblingErrors \/ process[p] = "termed"
    /\ Encoder(p)

TimedBackground ==
    \/ \E p \in Pubs, t \in Slots : Supervise(p, t)
    \/ \E p \in Pubs : TimedEncoder(p)

NextTimed ==
    \/ TimedMainThread
    \/ StopSteps
    \/ Interrupt
    \/ TimedBackground

SpecTimed == InitTimed /\ [][NextTimed]_vars

\* ------------------------------------------------------------------------
\* The timed program with a second caller: another thread of the embedding
\* program calls start() while the orchestrator runs.

\* a start() without the test of self.running: it creates the publishers if
\* there are none, takes a new start timestamp and starts every publisher
StartAgainUnguarded ==
    /\ o_running
    /\ mpc \in {"starting", "mon", "health", "monerr"}
    /\ starts_again < MaxStartAgain
    /\ starts_again' = starts_again + 1
    /\ publishers' = IF publishers = <<>> THEN create_publishers ELSE publishers
    /\ now' = 0
    /\ oi' = 1
    /\ mpc' = "starting"
    /\ UNCHANGED <<pubvars, sp, spc, o_running, hq, stopRet, reports,
                   config, last_report, memory_percent, cpu_percent>>

\* start() called while self.running: `logger.warning(...); return` (lines
\* 152-154)
StartAgain ==
    /\ o_running
    /\ mpc \in {"starting", "mon", "health", "monerr"}
    /\ starts_again < MaxStartAgain
    /\ starts_again' = starts_again + 1
    /\ UNCHANGED <<pubvars, mpc, sp, spc, orchvars,
                   config, now, last_report, memory_percent, cpu_percent>>

NextTimedAgain ==
    \/ NextTimed
    \/ StartAgain

SpecTimedAgain == InitTimed /\ [][NextTimedAgain]_vars

\* ------------------------------------------------------------------------
\* Scheduling: every thread of the program keeps being scheduled (the sleeps
\* of the loops and the bounded waits of stop() all end).  The encoder
\* processes, the signals and the callers of the publisher API are under no
\* obligation.
ThreadsFair == \A p \in Pubs, t \in Slots : WF_vars(Supervise(p, t))

FairSpecPub == SpecPub /\ ThreadsFair

FairSpec ==
    /\ Spec
    /\ ThreadsFair
    /\ WF_vars(MainThread)
    /\ WF_vars(StopSteps \/ JoinTimeout)

\* the thread that called stop() keeps being scheduled; the supervision
\* threads and the encoder processes are under no obligation
FairSpecPubHard == SpecPubHard /\ WF_vars(StopSteps \/ JoinTimeout \/ KillOutcomes)

\* whether a start fails is up to the environment
FairSpecStartFail ==
    /\ SpecStartFail
    /\ ThreadsFair
    /\ WF_vars(MainThread)
    /\ WF_vars(StopSteps \/ JoinTimeout)

\* the main thread also handles the exceptions it catches; whether kill()
\* fails is up to the environment
FairSpecStopErr ==
    /\ SpecStopErr
    /\ ThreadsFair
    /\ WF_vars(MainThread)
    /\ WF_vars(StopSteps \/ JoinTimeout)
    /\ WF_vars((OrchStopCaught \/ HealthError \/ MonErrResume) /\ UNCHANGED auxvars)

\* ========================================================================
\* Properties

\* C1: at most one encoder process launched by a publisher is alive at any
\* time, whatever the interleaving of start(), stop(), process exits and
\* supervision steps.
NoDoubleLaunch == \A p \in Pubs : LiveProcs(p) <= 1

\* C2: a publisher that is not running and has no stop() in progress has no
\* live encoder process.
StoppedHasNoProcess ==
    \A p \in Pubs : (~running[p] /\ sp # p) => LiveProcs(p) = 0

\* C3: the error count of a publisher never decreases and is never reset,
\* across start(), stop(), crashes and restarts.
ErrorCountMonotone == [][\A p \in Pubs : error_count'[p] >= error_count[p]]_vars

\* a publisher with errors that was stopped at the quarantine threshold after
\* having been stopped and started again
ErrorCountMonotoneWitness ==
    /\ thread[1] = 2
    /\ ~running[1]
    /\ error_count[1] >= QuarantineThreshold

\* exits of the current encoder that the supervision thread has yet to count
PendingExit(p) ==
    IF process[p] = "dead" /\ tpc[p][1] \in {"poll", "check"} THEN 1 ELSE 0

\* C4: while a publisher started once has had no stop request, its error
\* count is the number of encoder exits (plus the number of failed launches)
\* seen so far, one per exit, and its supervision thread is alive.
ErrorCountCountsExits ==
    \A p \in Pubs :
        (thread[p] = 1 /\ running[p]) =>
            /\ error_count[p] = exits[p] + fails[p] - PendingExit(p)
            /\ CurThreadAlive(p)

\* three exits in a row, no failed launch, no stop: three errors
ErrorCountCountsExitsWitness ==
    /\ thread[1] = 1 /\ running[1]
    /\ exits[1] = 3 /\ fails[1] = 0
    /\ error_count[1] = 3
    /\ CurThreadAlive(1)

\* C5: while a publisher stays running, an exit of its encoder process is
\* eventually followed by the launch of a new one, whatever the error count.
RestartsForever ==
    \A p \in Pubs :
        (running[p] /\ process[p] = "dead") ~> (Live(process[p]) \/ ~running[p])

\* an encoder launched again after the error count reached the threshold
RestartsForeverWitness ==
    /\ running[1]
    /\ error_count[1] >= HealthThreshold
    /\ tpc[1][1] = "poll"
    /\ process[1] = "alive"

\* C6: is_healthy() is true exactly when the publisher is running, its
\* current supervision thread exists and is alive, and its error count is
\* below 10.
HealthyIff ==
    \A p \in Pubs :
        is_healthy(p) <=>
            /\ running[p]
            /\ thread[p] \in Slots
            /\ tpc[p][thread[p]] \in {"loop", "launch", "poll", "check"}
            /\ error_count[p] \in 0..(HealthThreshold - 1)

\* a publisher that is running with a live thread and is unhealthy only
\* because of its error count
HealthyIffWitness ==
    /\ running[1]
    /\ CurThreadAlive(1)
    /\ error_count[1] = HealthThreshold
    /\ ~is_healthy(1)

\* C7: once a publisher's error count has reached 10 while the monitoring
\* loop runs, the publisher eventually is not running with no supervision
\* thread left to launch a process, unless the program has ended before.
QuarantineHappens ==
    \A p \in Pubs :
        (error_count[p] >= QuarantineThreshold /\ o_running /\ mpc \in {"mon", "health"})
            ~> (mpc = "exited" \/ (~running[p] /\ LiveThreads(p) = 0))

\* publisher 1 quarantined, the orchestrator and publisher 2 still running
QuarantineHappensWitness ==
    /\ error_count[1] >= QuarantineThreshold
    /\ ~running[1] /\ LiveThreads(1) = 0
    /\ o_running /\ mpc = "mon"
    /\ running[2]

\* the fields of publisher p that a failure of another publisher must leave
\* alone
PubFields(p) == <<running[p], error_count[p], process[p], orphans[p]>>

\* C8: a step that changes the running flag, the error count or the process
\* of one publisher (a crash, a restart, its quarantine) changes those of no
\* other publisher, nor the orchestrator's running flag.
FailureIsolation ==
    [][\A p \in Pubs :
          PubFields(p)' # PubFields(p) =>
              /\ o_running' = o_running
              /\ \A q \in Pubs \ {p} : PubFields(q)' = PubFields(q)]_vars

\* publisher 1 crashed ten times and was quarantined; publisher 2 is healthy
\* and has no error, the orchestrator runs
FailureIsolationWitness ==
    /\ error_count[1] >= QuarantineThreshold
    /\ ~running[1] /\ process[1] = "dead"
    /\ is_healthy(2) /\ error_count[2] = 0 /\ process[2] = "alive"
    /\ o_running

\* C9: every stop() of a publisher ends with running = false and no live
\* encoder process, so that a second stop() ends in the same state.
StopEndsStopped ==
    \A p \in Pubs : (sp = p /\ spc = "ret") => (~running[p] /\ LiveProcs(p) = 0)


\* C10: when the program ends after a run was started, the final report has
\* been produced exactly once and every publisher has been stopped.
FinalReportExactlyOnce ==
    (mpc = "exited" /\ publishers # <<>>) =>
        /\ reports = 1
        /\ \A p \in Range(publishers) : ~running[p]

\* a call of LoadTestOrchestrator.stop() returns to the code after the
\* monitoring loop, to main, or into _check_resource_limits
StopReturns ==
    \/ reports' # reports
    \/ mpc = "mon" /\ mpc' = "finally"
    \/ mpc = "finally" /\ mpc' = "exited"

\* C11: LoadTestOrchestrator.stop() marks the orchestrator not running before
\* it stops the first publisher, writes the final report only after the stop
\* of every publisher, and returns with the orchestrator's flag and every
\* publisher's flag false.
StopOrdering ==
    [][/\ mpc' = "stopping" =>
            /\ ~o_running'
            /\ \A i \in 1..(oi' - 1) : ~running'[publishers'[i]]
       /\ reports' # reports => (mpc = "stopping" /\ oi > Len(publishers))
       /\ StopReturns =>
            /\ ~o_running'
            /\ \A p \in Range(publishers') : ~running'[p]]_vars

\* a shutdown of two started publishers has returned to main with its report
StopOrderingWitness ==
    /\ mpc = "finally" /\ reports = 1
    /\ ~o_running
    /\ \A p \in Pubs : thread[p] > 0 /\ ~running[p]

\* C12: during a full shutdown an exception of one publisher's stop() is
\* caught where it is raised: the loop keeps its place, every publisher of the
\* collection has had its stop attempt when the report is written, and the
\* report is written (unless a termination signal ends the program first).
StopErrorIsolated ==
    /\ [][/\ (mpc = "stopping" /\ spc = "raised" /\ mpc' # "exited") =>
                (mpc' = "stopping" /\ oi' = oi /\ reports' = reports)
          /\ (reports' # reports /\ publishers # <<>>) =>
                (oi = Len(publishers) + 1 /\ \A p \in Range(publishers) : ~running[p])]_vars
    /\ (mpc = "stopping" /\ spc = "raised") ~> (reports > 0 \/ mpc = "exited")

\* the report has been written although the stop of the first publisher
\* raised (its encoder survived SIGTERM and the failed kill), after the stop
\* of the second publisher
StopErrorIsolatedWitness ==
    /\ reports = 1 /\ mpc = "finally"
    /\ process[1] = "termed"
    /\ thread[2] > 0 /\ ~running[2]

\* an iteration of the monitoring loop has taken its resource samples
SampleStep == mpc = "mon" /\ (mpc' = "health" \/ stopRet' = "mem")

\* C13: an iteration whose memory sample exceeds the ceiling shuts the test
\* down in that iteration (the orchestrator is marked not running at once,
\* and when the iteration goes on every publisher is stopped and the report
\* written), nothing is reported a second time, and the next check of the
\* loop condition ends the loop.
MemoryHardStop ==
    [][/\ (SampleStep /\ memory_percent' > MaxMemoryPercent) =>
            (mpc' = "stopping" /\ ~o_running')
       /\ (mpc' = "health" /\ ~o_running') =>
            (reports' = 1 /\ \A p \in Range(publishers') : ~running'[p])
       /\ (mpc \in {"health", "mon", "finally"} /\ ~o_running) =>
            (reports' = reports /\ memory_percent' = memory_percent)
       /\ (mpc = "mon" /\ ~o_running) => mpc' \in {"mon", "finally", "exited"}]_vars

\* the test of two started publishers has been shut down on a memory sample
\* above the ceiling, and the loop has ended
MemoryHardStopWitness ==
    /\ mpc = "finally" /\ reports = 1
    /\ memory_percent > MaxMemoryPercent
    /\ ~o_running
    /\ \A p \in Pubs : thread[p] > 0 /\ ~running[p]

\* C14: the CPU check of an iteration whose sample exceeds the ceiling leaves
\* the orchestrator's running flag and every publisher's running flag,
\* process and error count as they are.
CpuSoftLimit ==
    [][(/\ cpu_percent' > MaxCpuPercent
        /\ cpu_percent' # cpu_percent \/ (mpc # "health" /\ mpc' = "health")) =>
            /\ o_running' = o_running
            /\ running' = running
            /\ process' = process
            /\ error_count' = error_count]_vars

\* the audit after a CPU sample above the ceiling: the orchestrator and both
\* publishers run
CpuSoftLimitWitness ==
    /\ mpc = "health" /\ o_running
    /\ cpu_percent > MaxCpuPercent
    /\ memory_percent > 0 /\ memory_percent <= MaxMemoryPercent
    /\ \A p \in Pubs : running[p] /\ process[p] = "alive"

\* C15: with a duration limit configured, the orchestrator is running at
\* most one second past the limit.
DurationRespected ==
    (o_running /\ config.duration > 0) => now <= config.duration + LoopSleep

\* C16: wherever a termination signal finds the main thread (starting the
\* publishers, in the monitoring loop, inside a stop() in progress), the
\* program ends only with every publisher stopped and the final report
\* written exactly once.
SignalReentrantSafe ==
    [][(mpc \in {"starting", "mon", "health", "stopping"} /\ mpc' = "exited") =>
            /\ reports' = 1
            /\ \A p \in Range(publishers') : ~running'[p]]_vars

\* C17: after an exception in the body of an iteration the monitoring loop
\* ends and the orchestrator is stopped: the exception handler is left only
\* with the orchestrator not running.
ErrorEndsLoop ==
    [][mpc = "monerr" => (mpc' = "monerr" \/ ~o_running')]_vars

\* the names stream1, stream2, ... written out
NumberedNames == <<"stream1", "stream2", "stream3", "stream4", "stream5", "stream6">>

\* the publishers a step has appended to the collection
Added == SubSeq(publishers', Len(publishers) + 1, Len(publishers'))

\* C18: a call that creates publishers appends them to the collection; with
\* one video and concurrent_streams = N they are N publishers named stream1
\* to streamN in this order, with video sources only they are one publisher
\* per source, in list order, under the configured name; the endpoint of
\* each is the base URL, a slash and the stream name.
CreatesConfigured ==
    [][publishers' # publishers =>
        /\ SubSeq(publishers', 1, Len(publishers)) = publishers
        /\ \A i \in 1..Len(Added) :
              Added[i].rtsp_url = config.base_url \o "/" \o Added[i].stream_name
        /\ (config.video /\ config.concurrent_streams # {}) =>
              /\ {Len(Added)} = config.concurrent_streams
              /\ \A i \in 1..Len(Added) : Added[i].stream_name = NumberedNames[i]
        /\ (~config.video /\ config.video_sources # <<>>) =>
              /\ Len(Added) = Len(config.video_sources)
              /\ \A i \in 1..Len(Added) :
                    Added[i].stream_name = config.video_sources[i]]_vars

\* three publishers created from one video with concurrent_streams = 3
CreatesConfiguredWitness ==
    /\ config.video /\ config.concurrent_streams = {3}
    /\ Len(publishers) = 3
    /\ publishers[3] = [stream_name |-> "stream3", rtsp_url |-> "rtsp://host:8554/stream3"]

\* C19: the collection never holds more publishers than limits.max_streams
\* allows, for every configuration the constructor accepts.
StreamCeiling ==
    Len(publishers) <= Get(config.max_streams, DefaultMaxStreams)

\* C20: no two publishers of the collection have the same stream name.
UniqueNames ==
    \A i, j \in 1..Len(publishers) :
        i # j => publishers[i].stream_name # publishers[j].stream_name

\* "total_streams": len(self.publishers) of the final report (line 310)
total_streams == Len(publishers)

\* report["streams"]: one entry per publisher of the collection, in order
\* (lines 320-322)
report_streams == [i \in 1..Len(publishers) |-> publishers[i]]

\* C21: once the publishers are created no step of start(), of the
\* monitoring loop, of a quarantine or of stop() changes the collection, and
\* the final report lists every created publisher, its stream count being
\* the number created.
CollectionFrozen ==
    [][/\ publishers # <<>> => publishers' = publishers
       /\ reports' # reports =>
            /\ total_streams = Len(create_publishers)
            /\ report_streams = create_publishers]_vars

\* the final report is written with publisher 1 quarantined before the
\* shutdown and still in the collection
CollectionFrozenWitness ==
    /\ reports = 1
    /\ error_count[1] >= QuarantineThreshold /\ ~running[1]
    /\ thread[2] > 0
    /\ report_streams = <<1, 2>>

\* C22: every publisher has at most one live supervision thread at any
\* time, under any sequence of start() and stop() calls.
OneSupervisor == \A p \in Pubs : LiveThreads(p) <= 1

\* C23: LoadTestOrchestrator.start() starts the publishers in creation
\* order, one per step: while it is starting them, the publishers before the
\* loop index have had their start attempt and the others have not, and the
\* monitoring loop is entered only when every publisher has had its start
\* attempt.
StartInOrder ==
    [][/\ mpc' = "starting" =>
            /\ \A i \in 1..(oi' - 1) : thread'[publishers'[i]] > 0
            /\ \A i \in oi'..Len(publishers') : thread'[publishers'[i]] = 0
       /\ Cardinality({p \in Pubs : thread'[p] # thread[p]}) <= 1
       /\ (mpc = "starting" /\ mpc' = "mon") =>
            \A p \in Range(publishers) : thread[p] > 0]_vars

\* the monitoring loop has begun; the encoder of the first publisher is
\* up, the thread of the second, started after it, has yet to launch
StartInOrderWitness ==
    /\ mpc = "mon" /\ o_running
    /\ tpc[1][1] = "poll" /\ process[1] = "alive"
    /\ thread[2] = 1 /\ tpc[2][1] = "loop"

\* a call of RTSPStreamPublisher.stop() is executing
StopInProgress == spc \in {"term", "wait", "kill", "join"}

\* C24: every call of stop() on a publisher ends (it returns, or ends with
\* the exception of kill()), whatever the encoder process and the
\* supervision thread do: no obligation on either is assumed.
StopTerminates == StopInProgress ~> spc \in {"ret", "raised"}

\* stop() has returned although the process survived SIGTERM and SIGKILL
\* and the supervision thread was still alive after the join
StopTerminatesWitness ==
    /\ sp = 1 /\ spc = "ret"
    /\ process[1] = "termed"
    /\ CurThreadAlive(1)

\* a supervision thread of publisher p launches an encoder process in this
\* step
Launches(p) == \E t \in Slots : tpc[p][t] = "launch" /\ tpc'[p][t] = "poll"

\* C25: while the running flag of a publisher is false and stays false, no
\* step of its supervision threads launches a process or increments the
\* error count, whichever step of the loop the thread was in.
CancelledThreadIsQuiet ==
    [][\A p \in Pubs :
          (~running[p] /\ ~running'[p]) =>
              /\ ~Launches(p)
              /\ error_count'[p] = error_count[p]]_vars

\* the step is one of a supervision thread of publisher p
OwnTaskStep(p) == \E t \in Slots : ThreadAlive(p, t) /\ tpc'[p][t] # tpc[p][t]

\* the step is one of the main thread, which runs the orchestrator
MainStep == <<mpc, sp, spc, oi, hq>>' # <<mpc, sp, spc, oi, hq>>

StartAgainIsNoOp ==
    [][starts_again' # starts_again =>
          /\ publishers' = publishers
          /\ UNCHANGED <<running, thread, tpc, process>>
          /\ now' = now
          /\ UNCHANGED <<mpc, oi, o_running, last_report>>]_vars

\* start() was called again four seconds into a run of two publishers: the
\* clock still counts from the first start, the loop is where it was
StartAgainIsNoOpWitness ==
    /\ starts_again = 1
    /\ o_running /\ mpc = "mon" /\ now >= 8
    /\ Len(publishers) = NPub
    /\ \A p \in Pubs : thread[p] = 1 /\ running[p]

\* C28: the error count of a publisher is incremented only in steps taken
\* while its running flag is true, and counts nothing but encoder exits that
\* happened while the publisher was running and failed launches: an exit
\* that stop() caused is not counted.
ExitClassification ==
    /\ [](\A p \in Pubs : error_count[p] <= exits[p] + fails[p])
    /\ [][\A p \in Pubs : error_count'[p] # error_count[p] => running[p]]_vars

\* C29: in stop() the force-kill hits only a process that received the
\* graceful request of this stop() and was alive when the grace wait
\* ended; the wait of a process that has exited is not followed by a kill;
\* without a process handle no request is made.
StopEscalation ==
    [][/\ (spc = "kill" /\ spc' # spc /\ process'[sp] # process[sp]) =>
            process[sp] = "termed"
       /\ (spc = "wait" /\ spc' = "kill") => Live(process[sp])
       /\ (spc = "term" /\ spc' # spc /\ process[sp] = "none") =>
            (spc' = "join" /\ process' = process)]_vars

\* C30: while the orchestrator is running, a step of the health audit that
\* clears the running flag of a publisher or begins its stop() does so for
\* a publisher with 10 errors or more; an unhealthy publisher with fewer
\* errors is passed over.
QuarantineOnlyAtThreshold ==
    [][(mpc = "health" /\ o_running) =>
          \A p \in Pubs :
             /\ (running[p] /\ ~running'[p]) =>
                   error_count[p] >= QuarantineThreshold
             /\ (sp' = p /\ spc' = "term" /\ spc # "term") =>
                   error_count[p] >= QuarantineThreshold]_vars

\* the audit has visited every unhealthy publisher; publisher 2, whose
\* thread never started, is unhealthy without an error and still marked
\* running, and publisher 1 was stopped at ten errors
QuarantineOnlyAtThresholdWitness ==
    /\ mpc = "health" /\ o_running /\ hq = <<>>
    /\ running[2] /\ ~CurThreadAlive(2) /\ error_count[2] = 0
    /\ ~running[1] /\ error_count[1] >= QuarantineThreshold

\* C31: once the error count of a publisher has reached 10 it stays there
\* and is_healthy() is false from then on, and no step of the monitoring
\* loop starts that publisher again: none creates a supervision thread for
\* it or sets its running flag.
QuarantinePermanent ==
    [][\A p \in Pubs :
          error_count[p] >= HealthThreshold =>
              /\ error_count'[p] >= HealthThreshold
              /\ ~is_healthy(p)'
              /\ mpc \in {"mon", "health", "monerr"} =>
                    (thread'[p] = thread[p] /\ (running'[p] => running[p]))]_vars

\* a later audit meets publisher 1, quarantined and with no thread left, as
\* unhealthy again while the orchestrator and publisher 2 run
QuarantinePermanentWitness ==
    /\ mpc = "health" /\ o_running /\ spc = "idle"
    /\ hq = <<1>>
    /\ ~running[1] /\ LiveThreads(1) = 0 /\ process[1] = "dead"
    /\ error_count[1] >= HealthThreshold
    /\ is_healthy(2)

LaunchFailureRetried ==
    /\ [][\A p \in Pubs :
             fails'[p] # fails[p] =>
                 /\ error_count'[p] = error_count[p] + 1
                 /\ \E t \in Slots : tpc[p][t] = "launch" /\ tpc'[p][t] = "loop"
                 /\ LiveThreads(p)' = LiveThreads(p)]_vars
    /\ \A p \in ClientPubs, t \in Slots :
          (fails[p] > 0 /\ tpc[p][t] = "loop" /\ running[p])
              ~> (tpc[p][t] = "launch" \/ ~running[p])

\* the first launch of publisher 1 failed and was counted; the second
\* attempt of the same thread has brought the encoder up
LaunchFailureRetriedWitness ==
    /\ fails[1] = 1 /\ error_count[1] = 1 /\ exits[1] = 0
    /\ running[1] /\ thread[1] = 1
    /\ tpc[1][1] = "poll" /\ process[1] = "alive"

\* C34: after a create_publishers() that raised, the collection is empty
\* and the orchestrator is not running, and a start() that follows runs
\* with no fewer publishers than the configuration asks for.
CreateAllOrNothing ==
    /\ mpc = "create_failed" => (publishers = <<>> /\ ~o_running)
    /\ mpc = "started" => Len(publishers) >= Len(NewPublishers(config))

\* the start() of publisher p has raised: its flag is set and its thread
\* object assigned, the thread never ran
StartFailed(p) == running[p] /\ thread[p] > 0 /\ tpc[p][thread[p]] = "unborn"

\* C35: in LoadTestOrchestrator.start() the step in which the start of a
\* publisher raises leaves the loop at the next publisher and every other
\* publisher as it was; the monitoring loop is entered only when every
\* publisher has had its attempt, and after a failed start it is entered
\* (unless a termination signal ends the run first).
StartErrorIsolated ==
    /\ [][/\ \A p \in Pubs :
                (mpc = "starting" /\ ~StartFailed(p) /\ StartFailed(p)') =>
                    /\ mpc' = "starting" /\ oi' = oi + 1
                    /\ \A q \in Pubs \ {p} : PubFields(q)' = PubFields(q)
          /\ (mpc = "starting" /\ mpc' = "mon") =>
                \A p \in Range(publishers) : thread[p] > 0]_vars
    /\ (mpc = "starting" /\ \E p \in Pubs : StartFailed(p))
          ~> (mpc = "mon" \/ ~o_running)

\* the start of publisher 1 raised; publisher 2, started after it, has its
\* encoder up and the monitoring loop runs
StartErrorIsolatedWitness ==
    /\ mpc = "mon" /\ o_running
    /\ StartFailed(1)
    /\ tpc[2][1] = "poll" /\ process[2] = "alive"

====
